---- MODULE Spec2Model ----
(***************************************************************************)
(* ConditionLayoutProduct (react/ConditionLayoutProduct.tsx): the handler  *)
(* registry HANDLERS and the component that builds the memoized "values"   *)
(* bag from useProduct() and gates the ConditionLayout on it.              *)
(*                                                                         *)
(* JavaScript values are tagged records: the tag t tells undefined, null,  *)
(* booleans, numbers, strings, arrays and objects apart, so that String(), *)
(* Boolean(), ?. , ?? and === are modelled by what they do on each kind.   *)
(* A thrown TypeError is the value TypeError.                              *)
(***************************************************************************)
EXTENDS Integers, Sequences, FiniteSets, TLC

VARIABLES facts, call, ctx, memo, rendered, stale

vars == <<facts, call, ctx, memo, rendered, stale>>

---------------------------------------------------------------------------
(* Bounds of the model. *)
MaxSellers == 2
MaxProps == 2
MaxClusters == 1

---------------------------------------------------------------------------
(* JavaScript values. *)
Undefined == [t |-> "undefined"]
Null == [t |-> "null"]
NaN == [t |-> "nan"]
TypeError == [t |-> "TypeError"]
Bool(b) == [t |-> "bool", b |-> b]
Num(n) == [t |-> "num", n |-> n]
Str(s) == [t |-> "str", s |-> s]
Arr(r, a) == [t |-> "arr", ref |-> r, a |-> a]

Min(S) == CHOOSE x \in S : \A y \in S : x <= y

\* x == null
Nullish(v) == v.t \in {"undefined", "null"}

\* a ?? b
Coalesce(a, b) == IF Nullish(a) THEN b ELSE a

\* o?.f
Opt(o, f) == IF Nullish(o) THEN Undefined ELSE o[f]

Digit == <<"0", "1", "2", "3", "4", "5", "6", "7", "8", "9">>

RECURSIVE ToDigits(_)
ToDigits(n) ==
    IF n < 10 THEN Digit[n + 1] ELSE ToDigits(n \div 10) \o Digit[(n % 10) + 1]

\* String(v), on the kinds of value an identifier takes.
JsString(v) ==
    CASE v.t = "str" -> v.s
      [] v.t = "num" -> IF v.n < 0 THEN "-" \o ToDigits(-v.n) ELSE ToDigits(v.n)
      [] v.t = "undefined" -> "undefined"
      [] v.t = "null" -> "null"
      [] v.t = "bool" -> IF v.b THEN "true" ELSE "false"
      [] OTHER -> "[object Object]"

\* Truthiness of a value.
Truthy(v) ==
    CASE v.t \in {"undefined", "null", "nan"} -> FALSE
      [] v.t = "bool" -> v.b
      [] v.t = "num" -> v.n # 0
      [] v.t = "str" -> v.s # ""
      [] OTHER -> TRUE

\* Boolean(v)
Boolean(v) == Bool(Truthy(v))

\* ToNumber(v), as the relational operators apply it to what the handlers compare.
ToNumber(v) ==
    CASE v.t = "num" -> v
      [] v.t = "null" -> Num(0)
      [] v.t = "bool" -> Num(IF v.b THEN 1 ELSE 0)
      [] OTHER -> NaN

\* a > b
JsGt(a, b) ==
    LET x == ToNumber(a)
        y == ToNumber(b)
    IN  Bool(x.t = "num" /\ y.t = "num" /\ x.n > y.n)

\* The elements of an array, none for an absent one.
Elements(arr) == IF Nullish(arr) THEN {} ELSE {arr.a[i] : i \in 1..Len(arr.a)}

\* arr?.find(callback), the callback given as the set of the elements it accepts:
\* the first accepted element, undefined when there is none or arr is absent.
OptFind(arr, accepted) ==
    IF Nullish(arr) THEN Undefined
    ELSE LET idx == {i \in 1..Len(arr.a) : arr.a[i] \in accepted}
         IN  IF idx = {} THEN Undefined ELSE arr.a[Min(idx)]

\* arr?.some(callback)
OptSome(arr, accepted) ==
    IF Nullish(arr) THEN Undefined
    ELSE Bool(\E i \in 1..Len(arr.a) : arr.a[i] \in accepted)

\* arr?.filter(callback)
OptFilter(arr, accepted) ==
    IF Nullish(arr) THEN Undefined
    ELSE Arr(0, SelectSeq(arr.a, LAMBDA x : x \in accepted))

\* arr?.length
OptLength(arr) == IF Nullish(arr) THEN Undefined ELSE Num(Len(arr.a))

\* arr?.includes(x)
OptIncludes(arr, x) ==
    IF Nullish(arr) THEN Undefined
    ELSE Bool(\E i \in 1..Len(arr.a) : arr.a[i] = x)

\* arr[0]: a TypeError on an absent arr, undefined on an empty one.
First(arr) ==
    IF Nullish(arr) THEN TypeError
    ELSE IF Len(arr.a) = 0 THEN Undefined ELSE arr.a[1]

---------------------------------------------------------------------------
(* HANDLERS: one operator per key, (values, args) -> a boolean, undefined  *)
(* or a thrown TypeError.                                                  *)

\* The same handler comparing the raw values, without String().
productId_strict(values, args) ==
    Bool(values.productId = Opt(args, "id"))

productId(values, args) ==
    Bool(JsString(values.productId) = JsString(Opt(args, "id")))

categoryId(values, args) ==
    Bool(JsString(values.categoryId) = JsString(Opt(args, "id")))

brandId(values, args) ==
    Bool(JsString(values.brandId) = JsString(Opt(args, "id")))

selectedItemId(values, args) ==
    Bool(JsString(values.selectedItemId) = JsString(Opt(args, "id")))

areAllVariationsSelected(values, args) ==
    values.areAllVariationsSelected

productClusters(values, args) ==
    LET Match == {c \in Elements(values.productClusters) :
                    JsString(c.id) = JsString(Opt(args, "id"))}
    IN  Boolean(OptFind(values.productClusters, Match))

productClusterHighlights(values, args) ==
    LET Match == {c \in Elements(values.clusterHighlights) :
                    JsString(c.id) = JsString(Opt(args, "id"))}
    IN  OptSome(values.clusterHighlights, Match)

categoryTree(values, args) ==
    LET Match == {c \in Elements(Opt(values, "categoryTree")) :
                    JsString(c.id) = JsString(Opt(args, "id"))}
    IN  Boolean(OptFind(Opt(values, "categoryTree"), Match))

\* The same handler looking the value up in every property of that name.
specificationProperties_anyProperty(values, args) ==
    LET props == values.specificationProperties
        Named(p) == Str(p.name) = Opt(args, "name")
    IN  IF Nullish(props) THEN Bool(FALSE)
        ELSE IF Nullish(Opt(args, "value"))
        THEN Bool(\E i \in 1..Len(props.a) : Named(props.a[i]))
        ELSE Bool(\E i \in 1..Len(props.a) :
                    /\ Named(props.a[i])
                    /\ \E j \in 1..Len(props.a[i].values) :
                          props.a[i].values[j] = JsString(args.value))

specificationProperties(values, args) ==
    LET Named == {p \in Elements(values.specificationProperties) :
                    Str(p.name) = Opt(args, "name")}
        specification == OptFind(values.specificationProperties, Named)
    IN  IF Nullish(specification) THEN Bool(FALSE)
        ELSE IF Nullish(Opt(args, "value")) THEN Boolean(specification)
        ELSE Bool(\E j \in 1..Len(specification.values) :
                    specification.values[j] = JsString(Opt(args, "value")))

\* The sellers the callback seller.commertialOffer.AvailableQuantity > 0 accepts.
Available(sellers) ==
    {seller \in Elements(sellers) : seller.commertialOffer.AvailableQuantity > 0}

isProductAvailable(values, args) ==
    LET sellers == values.sellers
        isAvailable == OptSome(sellers, Available(sellers))
    IN  Boolean(isAvailable)

\* The same handler counting every seller, available or not.
hasMoreSellersThan_allSellers(values, args) ==
    JsGt(OptLength(values.sellers), Opt(args, "quantity"))

hasMoreSellersThan(values, args) ==
    LET sellers == values.sellers
        productAvailable == OptFilter(sellers, Available(sellers))
        isMoreThan == JsGt(OptLength(productAvailable), Opt(args, "quantity"))
    IN  isMoreThan

\* The same handler without the search for the default seller.
hasBestPrice_firstSeller(values, args) ==
    LET seller == First(values.sellers)
    IN  IF seller.t # "obj" THEN TypeError
        ELSE LET expected == Coalesce(Opt(args, "value"), Bool(TRUE))
                 hasDiscount ==
                     Bool(seller.commertialOffer.ListPrice # seller.commertialOffer.Price)
             IN  Bool(hasDiscount = expected)

hasBestPrice(values, args) ==
    LET IsDefault == {s \in Elements(values.sellers) : s.sellerDefault}
        found == OptFind(values.sellers, IsDefault)
        \* found ?? values.sellers[0]
        seller == IF Nullish(found) THEN First(values.sellers) ELSE found
    IN  \* values.sellers[0] of an absent list, or destructuring undefined, throws
        IF seller.t # "obj" THEN TypeError
        ELSE LET ListPrice == seller.commertialOffer.ListPrice
                 Price == seller.commertialOffer.Price
                 expected == Coalesce(Opt(args, "value"), Bool(TRUE))
                 hasDiscount == Bool(ListPrice # Price)
             IN  Bool(hasDiscount = expected)

\* The same handler without the filter on AvailableQuantity.
sellerId_allSellers(values, args) ==
    LET Listed == {s \in Elements(values.sellers) :
                     Truthy(OptIncludes(Opt(args, "ids"), s.sellerId))}
    IN  OptSome(values.sellers, Listed)

sellerId(values, args) ==
    LET sellers == values.sellers
        availableSellers == OptFilter(sellers, Available(sellers))
        Listed == {availableSeller \in Elements(availableSellers) :
                     Truthy(OptIncludes(Opt(args, "ids"), availableSeller.sellerId))}
        matchSellers == OptSome(availableSellers, Listed)
    IN  matchSellers

\* HANDLERS[key]({ values, args })
HANDLERS(key, values, args) ==
    CASE key = "productId" -> productId(values, args)
      [] key = "categoryId" -> categoryId(values, args)
      [] key = "brandId" -> brandId(values, args)
      [] key = "selectedItemId" -> selectedItemId(values, args)
      [] key = "areAllVariationsSelected" -> areAllVariationsSelected(values, args)
      [] key = "productClusters" -> productClusters(values, args)
      [] key = "productClusterHighlights" -> productClusterHighlights(values, args)
      [] key = "categoryTree" -> categoryTree(values, args)
      [] key = "specificationProperties" -> specificationProperties(values, args)
      [] key = "isProductAvailable" -> isProductAvailable(values, args)
      [] key = "hasMoreSellersThan" -> hasMoreSellersThan(values, args)
      [] key = "hasBestPrice" -> hasBestPrice(values, args)
      [] key = "sellerId" -> sellerId(values, args)

---------------------------------------------------------------------------
(* The values the handlers are applied to: ContextValues and               *)
(* HandlerArguments, each drawn from a small set.                          *)

SeqsUpTo(S, n) == UNION {[1..k -> S] : k \in 0..n}

\* An identifier: absent, a number, or a string.
IdValues == {Undefined, Num(123), Str("123"), Str("45")}

\* Product['productClusters'], ['clusterHighlights'], ['categoryTree']: arrays of { id }.
Clusters == {[t |-> "obj", id |-> v] : v \in {Str("1"), Num(2)}}
ClusterLists == {Undefined} \cup {Arr(0, a) : a \in SeqsUpTo(Clusters, MaxClusters)}

\* Product['properties']: an array of { name, values }.
Properties ==
    {[t |-> "obj", name |-> n, values |-> v] :
        n \in {"color", "size"},
        v \in {<<>>, <<"red">>, <<"blue">>, <<"red", "blue">>}}
PropertyLists == {Undefined} \cup {Arr(0, a) : a \in SeqsUpTo(Properties, MaxProps)}

\* Item['sellers']: an array of { sellerId, sellerDefault, commertialOffer }.
Offers ==
    {[ListPrice |-> 100, Price |-> pr, AvailableQuantity |-> q] :
        pr \in {80, 100}, q \in {0, 1}}
Sellers ==
    {[t |-> "obj", sellerId |-> id, sellerDefault |-> d, commertialOffer |-> o] :
        id \in {"s1", "s2"}, d \in BOOLEAN, o \in Offers}
SellerLists == {Undefined} \cup {Arr(0, a) : a \in SeqsUpTo(Sellers, MaxSellers)}

\* ContextValues with every optional collection present and empty.
BaseValues ==
    [t |-> "obj",
     productId |-> Str("123"), categoryId |-> Str("45"), brandId |-> Num(123),
     productClusters |-> Arr(0, <<>>), clusterHighlights |-> Arr(0, <<>>),
     categoryTree |-> Arr(0, <<>>), selectedItemId |-> Str("45"),
     specificationProperties |-> Arr(0, <<>>),
     areAllVariationsSelected |-> Bool(FALSE), sellers |-> Arr(0, <<>>)]

ContextValues ==
    {[BaseValues EXCEPT !.productId = a, !.categoryId = b, !.brandId = c,
                        !.selectedItemId = d, !.areAllVariationsSelected = Bool(e)] :
        a \in IdValues, b \in IdValues, c \in IdValues, d \in IdValues, e \in BOOLEAN}
    \cup
    {[BaseValues EXCEPT !.productClusters = a, !.clusterHighlights = b,
                        !.categoryTree = c] :
        a \in ClusterLists, b \in ClusterLists, c \in ClusterLists}
    \cup
    {[BaseValues EXCEPT !.specificationProperties = a] : a \in PropertyLists}
    \cup
    {[BaseValues EXCEPT !.sellers = a] : a \in SellerLists}

\* HandlerArguments, per key; undefined is a condition without args.
IdArgs == {Undefined} \cup {[t |-> "obj", id |-> v] : v \in {Str("123"), Str("45"), Num(123)}}
ClusterArgs == {Undefined} \cup {[t |-> "obj", id |-> v] : v \in {Str("1"), Str("2")}}
SpecificationArgs ==
    {Undefined} \cup
    {[t |-> "obj", name |-> Str(n), value |-> v] :
        n \in {"color", "size"}, v \in {Undefined, Str("red"), Str("blue")}}
QuantityArgs ==
    {Undefined} \cup {[t |-> "obj", quantity |-> Num(q)] : q \in -1..(MaxSellers + 1)}
BestPriceArgs == {Undefined} \cup {[t |-> "obj", value |-> Bool(v)] : v \in BOOLEAN}
SellerIdArgs ==
    {Undefined} \cup
    {[t |-> "obj", ids |-> Arr(0, a)] : a \in {<<>>, <<"s1">>, <<"s2">>, <<"s1", "s2">>}}

NoCall == [key |-> "none", args |-> Undefined, ret |-> Undefined]

\* The component before its first render.
Unmounted ==
    [mounted |-> FALSE, deps |-> <<>>, value |-> [addr |-> 0, bag |-> Undefined]]

NotRendered == [kind |-> "none", values |-> Undefined, addr |-> 0]

EmptyObject == [t |-> "obj"]

\* o.f of an object: undefined when o has no property f.
Get(o, f) == IF f \in DOMAIN o THEN o[f] ELSE Undefined

\* A destructuring default, { f = d }: it replaces undefined, and only undefined.
Default(v, d) == IF v = Undefined THEN d ELSE v

---------------------------------------------------------------------------
(* The handlers applied: one call of HANDLERS[key]({ values, args }) on a  *)
(* bag of values, its result recorded in call.                             *)

InitHandlers ==
    /\ facts \in ContextValues
    /\ call = NoCall
    /\ ctx = Undefined
    /\ memo = Unmounted
    /\ rendered = NotRendered
    /\ stale = TRUE

\* The record of one call of HANDLERS[key] on the current values.
Invoke(key, args) ==
    [key |-> key, args |-> args, ret |-> HANDLERS(key, facts, args)]

CallProductId ==
    /\ call.key = "none"
    /\ \E args \in IdArgs : call' = Invoke("productId", args)
    /\ UNCHANGED <<facts, ctx, memo, rendered, stale>>

CallCategoryId ==
    /\ call.key = "none"
    /\ \E args \in IdArgs : call' = Invoke("categoryId", args)
    /\ UNCHANGED <<facts, ctx, memo, rendered, stale>>

CallBrandId ==
    /\ call.key = "none"
    /\ \E args \in IdArgs : call' = Invoke("brandId", args)
    /\ UNCHANGED <<facts, ctx, memo, rendered, stale>>

CallSelectedItemId ==
    /\ call.key = "none"
    /\ \E args \in IdArgs : call' = Invoke("selectedItemId", args)
    /\ UNCHANGED <<facts, ctx, memo, rendered, stale>>

CallAreAllVariationsSelected ==
    /\ call.key = "none"
    /\ \E args \in {Undefined} : call' = Invoke("areAllVariationsSelected", args)
    /\ UNCHANGED <<facts, ctx, memo, rendered, stale>>

CallProductClusters ==
    /\ call.key = "none"
    /\ \E args \in ClusterArgs : call' = Invoke("productClusters", args)
    /\ UNCHANGED <<facts, ctx, memo, rendered, stale>>

CallProductClusterHighlights ==
    /\ call.key = "none"
    /\ \E args \in ClusterArgs : call' = Invoke("productClusterHighlights", args)
    /\ UNCHANGED <<facts, ctx, memo, rendered, stale>>

CallCategoryTree ==
    /\ call.key = "none"
    /\ \E args \in ClusterArgs : call' = Invoke("categoryTree", args)
    /\ UNCHANGED <<facts, ctx, memo, rendered, stale>>

CallSpecificationProperties ==
    /\ call.key = "none"
    /\ \E args \in SpecificationArgs : call' = Invoke("specificationProperties", args)
    /\ UNCHANGED <<facts, ctx, memo, rendered, stale>>

CallIsProductAvailable ==
    /\ call.key = "none"
    /\ \E args \in {Undefined} : call' = Invoke("isProductAvailable", args)
    /\ UNCHANGED <<facts, ctx, memo, rendered, stale>>

CallHasMoreSellersThan ==
    /\ call.key = "none"
    /\ \E args \in QuantityArgs : call' = Invoke("hasMoreSellersThan", args)
    /\ UNCHANGED <<facts, ctx, memo, rendered, stale>>

CallHasBestPrice ==
    /\ call.key = "none"
    /\ \E args \in BestPriceArgs : call' = Invoke("hasBestPrice", args)
    /\ UNCHANGED <<facts, ctx, memo, rendered, stale>>

CallSellerId ==
    /\ call.key = "none"
    /\ \E args \in SellerIdArgs : call' = Invoke("sellerId", args)
    /\ UNCHANGED <<facts, ctx, memo, rendered, stale>>

NextHandlers ==
    \/ CallProductId
    \/ CallCategoryId
    \/ CallBrandId
    \/ CallSelectedItemId
    \/ CallAreAllVariationsSelected
    \/ CallProductClusters
    \/ CallProductClusterHighlights
    \/ CallCategoryTree
    \/ CallSpecificationProperties
    \/ CallIsProductAvailable
    \/ CallHasMoreSellersThan
    \/ CallHasBestPrice
    \/ CallSellerId

SpecHandlers == InitHandlers /\ [][NextHandlers]_vars

---------------------------------------------------------------------------
(* Properties of the handlers, on the recorded call.                       *)

Called(key) == call.key = key
IsArray(v) == v.t = "arr"
Range(f) == {f[i] : i \in DOMAIN f}

\* The fact each collection handler reads.
FactOf(key) ==
    CASE key = "productClusters" -> "productClusters"
      [] key = "productClusterHighlights" -> "clusterHighlights"
      [] key = "categoryTree" -> "categoryTree"
      [] key = "specificationProperties" -> "specificationProperties"
      [] key \in {"isProductAvailable", "hasMoreSellersThan", "sellerId"} -> "sellers"

\* C2: hasBestPrice on an empty seller list returns false, whatever its args,
\* and does not raise.
C2_EmptySellersGiveFalse ==
    (Called("hasBestPrice") /\ facts.sellers = Arr(0, <<>>))
        => call.ret = Bool(FALSE)

\* C3: each of productClusters, productClusterHighlights, categoryTree,
\* specificationProperties, isProductAvailable, hasMoreSellersThan and sellerId
\* returns exactly the boolean false when the fact it reads is absent, for every
\* well-typed args.
C3_AbsentFactGivesFalse ==
    \A key \in {"productClusters", "productClusterHighlights", "categoryTree",
                "specificationProperties", "isProductAvailable",
                "hasMoreSellersThan", "sellerId"} :
        (/\ Called(key)
         /\ Nullish(facts[FactOf(key)])
         /\ (call.args = Undefined) <=> (key = "isProductAvailable"))
            => call.ret = Bool(FALSE)

\* The seller hasBestPrice is about: the first one marked default, the first of
\* the list when none is.
SelectedSeller(a) ==
    LET defaults == {i \in 1..Len(a) : a[i].sellerDefault}
    IN  IF defaults = {} THEN 1 ELSE Min(defaults)

\* C5: on a non-empty seller list hasBestPrice is true iff (ListPrice # Price) of
\* the selected seller equals the expected value (args.value, true when absent);
\* {value: false} negates the call without args, and the offers of the other
\* sellers do not change the result.
C5_BestPriceOfSelectedSeller ==
    (Called("hasBestPrice") /\ IsArray(facts.sellers) /\ Len(facts.sellers.a) > 0)
        => LET a == facts.sellers.a
               sel == SelectedSeller(a)
               offer == a[sel].commertialOffer
               expected == IF call.args = Undefined THEN TRUE ELSE call.args.value.b
           IN  /\ call.ret = Bool((offer.ListPrice # offer.Price) = expected)
               /\ (call.args = [t |-> "obj", value |-> Bool(FALSE)])
                    => call.ret = Bool(~ hasBestPrice(facts, Undefined).b)
               /\ \A i \in (1..Len(a)) \ {sel} : \A o \in Offers :
                    hasBestPrice(
                        [facts EXCEPT !.sellers.a[i].commertialOffer = o],
                        call.args) = call.ret

\* C5 happens: no args, the first seller is not the default one and has a
\* discount, the default seller comes second and has none: false.
C5_Witness ==
    /\ Called("hasBestPrice")
    /\ call.args = Undefined
    /\ IsArray(facts.sellers)
    /\ Len(facts.sellers.a) = 2
    /\ ~ facts.sellers.a[1].sellerDefault
    /\ facts.sellers.a[1].commertialOffer.Price = 80
    /\ facts.sellers.a[2].sellerDefault
    /\ facts.sellers.a[2].commertialOffer.Price = 100
    /\ call.ret = Bool(FALSE)

\* C6: sellerId({ids}) is true iff some seller with AvailableQuantity > 0 has its
\* sellerId in ids.
C6_SellerIdOfAvailableSeller ==
    (Called("sellerId") /\ IsArray(facts.sellers) /\ call.args # Undefined)
        => LET a == facts.sellers.a
               ids == Range(call.args.ids.a)
           IN  call.ret =
                 Bool(\E i \in 1..Len(a) :
                        /\ a[i].commertialOffer.AvailableQuantity > 0
                        /\ a[i].sellerId \in ids)

\* C6 happens: an unavailable "s1" before an available "s1", ids = ["s1"]: true.
C6_Witness ==
    /\ Called("sellerId")
    /\ IsArray(facts.sellers)
    /\ Len(facts.sellers.a) = 2
    /\ facts.sellers.a[1].sellerId = "s1"
    /\ facts.sellers.a[1].commertialOffer.AvailableQuantity = 0
    /\ facts.sellers.a[2].sellerId = "s1"
    /\ facts.sellers.a[2].commertialOffer.AvailableQuantity = 1
    /\ call.args = [t |-> "obj", ids |-> Arr(0, <<"s1">>)]
    /\ call.ret = Bool(TRUE)

AvailableCount(a) ==
    Cardinality({i \in 1..Len(a) : a[i].commertialOffer.AvailableQuantity > 0})

\* C7: hasMoreSellersThan({quantity}) is true iff the number of sellers with
\* AvailableQuantity > 0 is strictly greater than quantity, and isProductAvailable
\* is hasMoreSellersThan({quantity: 0}).
C7_MoreSellersThanQuantity ==
    /\ (Called("hasMoreSellersThan") /\ IsArray(facts.sellers) /\ call.args # Undefined)
         => call.ret = Bool(AvailableCount(facts.sellers.a) > call.args.quantity.n)
    /\ (Called("isProductAvailable") /\ IsArray(facts.sellers))
         => call.ret = hasMoreSellersThan(facts, [t |-> "obj", quantity |-> Num(0)])

\* C7 happens: one available seller and one unavailable, quantity 1: false.
C7_Witness ==
    /\ Called("hasMoreSellersThan")
    /\ IsArray(facts.sellers)
    /\ Len(facts.sellers.a) = 2
    /\ AvailableCount(facts.sellers.a) = 1
    /\ call.args = [t |-> "obj", quantity |-> Num(1)]
    /\ call.ret = Bool(FALSE)

\* C8: specificationProperties({name, value?}) is false when no property has that
\* name; without value it is true iff a property of that name exists; with value
\* it is true iff value is among the values of the property of that name (the
\* one the lookup finds, the first of the sequence).
C8_SpecificationByName ==
    (/\ Called("specificationProperties")
     /\ IsArray(facts.specificationProperties)
     /\ call.args # Undefined)
        => LET a == facts.specificationProperties.a
               named == {i \in 1..Len(a) : a[i].name = call.args.name.s}
           IN  /\ (named = {}) => call.ret = Bool(FALSE)
               /\ (call.args.value = Undefined) => call.ret = Bool(named # {})
               /\ (call.args.value # Undefined /\ named # {})
                    => call.ret =
                         Bool(call.args.value.s \in Range(a[Min(named)].values))

\* C8 happens: a property "color" without values, no value asked: true.
C8_Witness ==
    /\ Called("specificationProperties")
    /\ IsArray(facts.specificationProperties)
    /\ Len(facts.specificationProperties.a) = 1
    /\ facts.specificationProperties.a[1].name = "color"
    /\ facts.specificationProperties.a[1].values = <<>>
    /\ call.args = [t |-> "obj", name |-> Str("color"), value |-> Undefined]
    /\ call.ret = Bool(TRUE)

IdKeys == {"productId", "categoryId", "brandId", "selectedItemId"}

\* C9: productId, categoryId, brandId and selectedItemId are true iff the fact
\* and args.id have the same string representation: the number 123 matches
\* "123", a fact matches itself, and no other field of the bag matters.
C9_IdsComparedAsStrings ==
    \A key \in IdKeys :
        (Called(key) /\ call.args # Undefined)
            => /\ call.ret = Bool(JsString(facts[key]) = JsString(call.args.id))
               /\ (facts[key] = Num(123) /\ call.args.id = Str("123"))
                    => call.ret = Bool(TRUE)
               /\ (facts[key] = Str("45") /\ call.args.id = Str("123"))
                    => call.ret = Bool(FALSE)
               /\ (facts[key] = call.args.id) => call.ret = Bool(TRUE)
               /\ \A other \in IdKeys \ {key} : \A v \in IdValues :
                    HANDLERS(key, [facts EXCEPT ![other] = v], call.args) = call.ret

\* C9 happens: the fact is the number 123, args.id the string "123": true.
C9_Witness ==
    /\ Called("productId")
    /\ facts.productId = Num(123)
    /\ call.args = [t |-> "obj", id |-> Str("123")]
    /\ call.ret = Bool(TRUE)

---------------------------------------------------------------------------
(* The component. ctx is what useProduct() returns; memo is the state of   *)
(* the useMemo hook (its dependency list and the bag it holds, an object   *)
(* with an identity, addr); rendered is what the last render returned;     *)
(* stale tells that ctx changed since the last render.                     *)

ProductFields ==
    {"productId", "categoryId", "brandId", "productClusters", "clusterHighlights",
     "categoryTree", "properties"}

FullProduct ==
    [t |-> "obj",
     productId |-> Str("123"), categoryId |-> Str("45"), brandId |-> Num(123),
     productClusters |-> Arr(1, <<[t |-> "obj", id |-> Str("1")]>>),
     clusterHighlights |-> Arr(2, <<>>),
     categoryTree |-> Arr(3, <<[t |-> "obj", id |-> Num(2)]>>),
     properties |-> Arr(4, <<[t |-> "obj", name |-> "color", values |-> <<"red">>]>>)]

\* The product while it loads: an object none of whose fields is set.
EmptyProduct == [f \in ProductFields \cup {"t"} |-> IF f = "t" THEN "obj" ELSE Undefined]

\* The products of the context: none, the empty one, the full one, the full one
\* without one of its fields, with a null productId, and with its clusters in
\* another array of the same content.
Products ==
    {Undefined, EmptyProduct, FullProduct}
    \cup {[FullProduct EXCEPT ![f] = Undefined] : f \in ProductFields}
    \cup {[FullProduct EXCEPT !.productId = Null],
          [FullProduct EXCEPT !.productClusters = Arr(7, FullProduct.productClusters.a)]}

OneSeller ==
    <<[t |-> "obj", sellerId |-> "s1", sellerDefault |-> TRUE,
       commertialOffer |-> [ListPrice |-> 100, Price |-> 80, AvailableQuantity |-> 1]]>>

\* The selected items: none, an item whose itemId is absent, null or set, an
\* item without sellers, and an item whose sellers are in another array (the
\* arrays 5 and 6 hold the same sellers).
SelectedItems ==
    {Undefined}
    \cup {[t |-> "obj", itemId |-> i, sellers |-> Arr(5, OneSeller)] :
            i \in {Undefined, Null, Str("45")}}
    \cup {[t |-> "obj", itemId |-> Str("45"), sellers |-> l] :
            l \in {Undefined, Arr(6, OneSeller)}}

SkuSelectors ==
    {Undefined}
    \cup {[t |-> "obj", areAllVariationsSelected |-> v] :
            v \in {Undefined, Bool(TRUE), Bool(FALSE)}}

\* The destructuring of useProduct() ?? {}, product ?? {} and selectedItem ?? {}:
\* the ten inputs of the bag.
Inputs(c) ==
    LET u == Coalesce(c, EmptyObject)
        product == Get(u, "product")
        selectedItem == Get(u, "selectedItem")
        skuSelector == Default(Get(u, "skuSelector"), EmptyObject)
        p == Coalesce(product, EmptyObject)
        i == Coalesce(selectedItem, EmptyObject)
    IN  [productId |-> Get(p, "productId"),
         categoryId |-> Get(p, "categoryId"),
         brandId |-> Get(p, "brandId"),
         productClusters |-> Get(p, "productClusters"),
         clusterHighlights |-> Get(p, "clusterHighlights"),
         categoryTree |-> Get(p, "categoryTree"),
         selectedItemId |-> Get(i, "itemId"),
         specificationProperties |-> Get(p, "properties"),
         areAllVariationsSelected |->
             Default(Get(skuSelector, "areAllVariationsSelected"), Bool(FALSE)),
         sellers |-> Get(i, "sellers")]

\* The bag the useMemo callback builds; the cast to NoUndefinedField changes no value.
Bag(in) ==
    [t |-> "obj",
     productId |-> in.productId, categoryId |-> in.categoryId, brandId |-> in.brandId,
     productClusters |-> in.productClusters, clusterHighlights |-> in.clusterHighlights,
     categoryTree |-> in.categoryTree, selectedItemId |-> in.selectedItemId,
     specificationProperties |-> in.specificationProperties,
     areAllVariationsSelected |-> in.areAllVariationsSelected, sellers |-> in.sellers]

\* The dependency list with sellers left out.
DependencyList_withoutSellers(in) ==
    <<in.brandId, in.categoryId, in.categoryTree, in.productClusters,
      in.clusterHighlights, in.productId, in.selectedItemId,
      in.specificationProperties, in.areAllVariationsSelected>>

\* The dependency list of the useMemo.
DependencyList(in) ==
    <<in.brandId, in.categoryId, in.categoryTree, in.productClusters,
      in.clusterHighlights, in.productId, in.selectedItemId,
      in.specificationProperties, in.areAllVariationsSelected, in.sellers>>

\* Object.is on the values a dependency takes: arrays by identity, the rest by value.
ObjectIs(a, b) == IF a.t = "arr" /\ b.t = "arr" THEN a.ref = b.ref ELSE a = b

\* The identity of a newly built bag: another one than the bag the hook holds.
Fresh(addr) == IF addr = 1 THEN 2 ELSE 1

\* useMemo: the bag it holds when every dependency is the one of the previous
\* render, a newly built bag otherwise.
UseMemo(m, in) ==
    LET deps == DependencyList(in)
    IN  IF m.mounted /\ \A k \in 1..Len(deps) : ObjectIs(m.deps[k], deps[k])
        THEN m
        ELSE [mounted |-> TRUE, deps |-> deps,
              value |-> [addr |-> Fresh(m.value.addr), bag |-> Bag(in)]]

\* The gate with === undefined in the place of == null.
NotReady_onlyUndefined(values) ==
    values.selectedItemId = Undefined \/ values.productId = Undefined

\* values.selectedItemId == null || values.productId == null
NotReady(values) ==
    Nullish(values.selectedItemId) \/ Nullish(values.productId)

Init ==
    /\ ctx = Undefined
    /\ memo = Unmounted
    /\ rendered = NotRendered
    /\ stale = TRUE
    /\ facts = BaseValues
    /\ call = NoCall

\* The product context is set or dropped as a whole.
ContextChange ==
    /\ \/ ctx = Undefined /\ ctx' = [t |-> "obj", product |-> Undefined,
                                     selectedItem |-> Undefined,
                                     skuSelector |-> Undefined]
       \/ ctx # Undefined /\ ctx' = Undefined
    /\ stale' = TRUE
    /\ UNCHANGED <<memo, rendered, facts, call>>

\* The product of the context changes.
ProductChange ==
    /\ ctx # Undefined
    /\ \E p \in Products \ {ctx.product} : ctx' = [ctx EXCEPT !.product = p]
    /\ stale' = TRUE
    /\ UNCHANGED <<memo, rendered, facts, call>>

\* The selected item changes.
SelectedItemChange ==
    /\ ctx # Undefined
    /\ \E i \in SelectedItems \ {ctx.selectedItem} :
          ctx' = [ctx EXCEPT !.selectedItem = i]
    /\ stale' = TRUE
    /\ UNCHANGED <<memo, rendered, facts, call>>

\* The SKU selector changes.
SkuSelectorChange ==
    /\ ctx # Undefined
    /\ \E k \in SkuSelectors \ {ctx.skuSelector} :
          ctx' = [ctx EXCEPT !.skuSelector = k]
    /\ stale' = TRUE
    /\ UNCHANGED <<memo, rendered, facts, call>>

\* One render of ConditionLayoutProduct.
Render ==
    LET m == UseMemo(memo, Inputs(ctx))
        values == m.value.bag
    IN  /\ memo' = m
        /\ rendered' =
             IF NotReady(values)
             THEN [kind |-> "null", values |-> Undefined, addr |-> 0]
             ELSE [kind |-> "ConditionLayout", values |-> values,
                   addr |-> m.value.addr]
        /\ stale' = FALSE
        /\ UNCHANGED <<ctx, facts, call>>

Next ==
    \/ ContextChange
    \/ ProductChange
    \/ SelectedItemChange
    \/ SkuSelectorChange
    \/ Render

Spec == Init /\ [][Next]_vars

---------------------------------------------------------------------------
(* Properties of the component.                                            *)

BagFields ==
    {"productId", "categoryId", "brandId", "productClusters", "clusterHighlights",
     "categoryTree", "selectedItemId", "specificationProperties",
     "areAllVariationsSelected", "sellers"}

\* productId and selectedItemId are both present in the context.
Ready(c) ==
    /\ c # Undefined
    /\ c.product # Undefined
    /\ ~ Nullish(c.product.productId)
    /\ c.selectedItem # Undefined
    /\ ~ Nullish(c.selectedItem.itemId)

\* C1: a render returns null, and hands nothing to ConditionLayout, when
\* productId or selectedItemId is absent (null or undefined) in the current
\* context; it renders ConditionLayout only when both are present.
C1_NoDecisionUntilReady ==
    /\ (~ stale) => /\ rendered.kind \in {"null", "ConditionLayout"}
                    /\ (rendered.kind = "ConditionLayout") <=> Ready(ctx)
    /\ (rendered.kind = "ConditionLayout")
          => /\ ~ Nullish(rendered.values.productId)
             /\ ~ Nullish(rendered.values.selectedItemId)
    /\ (rendered.kind # "ConditionLayout") => rendered.values = Undefined

\* C1 happens: the hook holds the bag of an earlier render, the product is
\* there, the itemId of the selected item is null, and the render returned null.
C1_Witness ==
    /\ ~ stale
    /\ memo.value.addr = 2
    /\ ctx # Undefined
    /\ ctx.product = FullProduct
    /\ ctx.selectedItem # Undefined
    /\ ctx.selectedItem.itemId = Null
    /\ rendered.kind = "null"

\* C4: every field of the bag handed to ConditionLayout is non-null.
C4_NoAbsentFieldInBag ==
    (rendered.kind = "ConditionLayout")
        => \A f \in BagFields : ~ Nullish(rendered.values[f])

\* A step of the render: the context is the same before and after.
RenderStep == ctx' = ctx

\* C10: the bag a render uses equals, field by field, the bag of the current
\* inputs, and it is the object of the previous render iff every one of the ten
\* inputs is, by Object.is, the one that render had.
C10_MemoizedBagIsCurrent ==
    [][RenderStep =>
         /\ memo'.mounted
         /\ \A f \in BagFields :
               /\ memo'.value.bag[f] = Inputs(ctx')[f]
               /\ ObjectIs(memo'.value.bag[f], Inputs(ctx')[f])
         /\ memo.mounted =>
               ((memo'.value.addr = memo.value.addr)
                  <=> \A f \in BagFields :
                        ObjectIs(Inputs(ctx')[f], memo.value.bag[f]))
         /\ (rendered'.kind = "ConditionLayout") =>
               /\ rendered'.values = memo'.value.bag
               /\ rendered'.addr = memo'.value.addr]_vars

\* C10 happens: the sellers came in another array of the same content, and the
\* render built a second bag that holds it.
C10_Witness ==
    /\ ~ stale
    /\ memo.value.addr = 2
    /\ ctx # Undefined
    /\ ctx.selectedItem # Undefined
    /\ ctx.selectedItem.sellers = Arr(6, OneSeller)
    /\ memo.value.bag.sellers = Arr(6, OneSeller)
    /\ rendered.kind = "ConditionLayout"

====
